---- MODULE Spec2Model ----
(***************************************************************************)
(* Model of the cli_config! macro of peace_core (crates/core/src/config.rs) *)
(* as expanded for a schema: the generated Config record, Config::default, *)
(* parse_env, parse_from and the matching loop parse_impl, together with   *)
(* the lexopt::Parser calls the loop makes (next, value, string, parse,    *)
(* unexpected).  Tokens and Text values are sequences of one-character     *)
(* strings, so that the lexing of a token is computed and not assumed.     *)
(***************************************************************************)
EXTENDS Integers, Sequences, FiniteSets, TLC

\* The largest number of tokens that follow the program name.
MaxArgs == 4

\* Range of the i32 storage type of an Integer-kind field.
I32Max == 2147483647
I32Min == -I32Max - 1

(***************************************************************************)
(* Tokens                                                                  *)
(***************************************************************************)
Dash == "-"
Eq == "="
\* A byte that is not valid UTF-8 (an OsString may hold one).
BadByte == "\\xFF"

tProgram == <<"p", "r", "o", "g", "r", "a", "m">>
tEmpty == <<>>
tDashDash == <<"-", "-">>
tShortC == <<"-", "c">>
tShortR == <<"-", "r">>
tShortD == <<"-", "d">>
tShortX == <<"-", "x">>
tLongConfig == <<"-", "-", "c", "o", "n", "f", "i", "g">>
tLongRetries == <<"-", "-", "r", "e", "t", "r", "i", "e", "s">>
tLongDebug == <<"-", "-", "d", "e", "b", "u", "g">>
tLongVerbose == <<"-", "-", "v", "e", "r", "b", "o", "s", "e">>
tLongDebugEqX == <<"-", "-", "d", "e", "b", "u", "g", "=", "x">>
tClusterDX == <<"-", "d", "x">>
tFive == <<"5">>
tSeven == <<"7">>
tAbc == <<"a", "b", "c">>
tPath == <<"/", "p">>
tBad == <<BadByte>>
tShortUpC == <<"-", "C">>
tShortV == <<"-", "v">>
tShortUpV == <<"-", "V">>
tShortH == <<"-", "h">>
tLongVersion == <<"-", "-", "v", "e", "r", "s", "i", "o", "n">>
tLongHelp == <<"-", "-", "h", "e", "l", "p">>

(***************************************************************************)
(* Option schemas: the arguments of the two cli_config! invocations        *)
(***************************************************************************)
Opt(name, default, kind, hasShort, short, hasLong, long) ==
    [name |-> name, default |-> default, kind |-> kind,
     hasShort |-> hasShort, short |-> short, hasLong |-> hasLong, long |-> long]

TestSchema ==
    << Opt("config_path",
           <<"~", "/", ".", "c", "o", "n", "f", "i", "g", ".", "j", "s", "o", "n">>,
           "str", TRUE, "c", TRUE, <<"c", "o", "n", "f", "i", "g">>),
       Opt("max_retries", 3, "int", TRUE, "r", TRUE,
           <<"r", "e", "t", "r", "i", "e", "s">>),
       Opt("debug", FALSE, "bool", TRUE, "d", TRUE, <<"d", "e", "b", "u", "g">>),
       Opt("verbose", FALSE, "bool", FALSE, "", TRUE,
           <<"v", "e", "r", "b", "o", "s", "e">>) >>

CliSchema ==
    << Opt("config_path",
           <<"~", "/", ".", "c", "o", "n", "f", "i", "g", "/", "p", "e", "a", "c", "e",
             "/", "c", "o", "n", "f", "i", "g", ".", "t", "o", "m", "l">>,
           "str", TRUE, "C", TRUE, <<"c", "o", "n", "f", "i", "g">>),
       Opt("verbose", FALSE, "bool", TRUE, "v", TRUE,
           <<"v", "e", "r", "b", "o", "s", "e">>),
       Opt("version", FALSE, "bool", TRUE, "V", TRUE,
           <<"v", "e", "r", "s", "i", "o", "n">>),
       Opt("help", FALSE, "bool", TRUE, "h", TRUE, <<"h", "e", "l", "p">>) >>

Names(sch) == {sch[i].name : i \in DOMAIN sch}
OptOf(sch, n) == sch[CHOOSE i \in DOMAIN sch : sch[i].name = n]

(***************************************************************************)
(* Config::default                                                         *)
(***************************************************************************)
\* Mutant of DefaultValue: the record is built from the storage types' own
\* defaults (empty string, 0, false) and not from the schema's literals.
DefaultValueOfType(value, kind) ==
    CASE kind = "str" -> <<>>
      [] kind = "int" -> 0
      [] kind = "bool" -> FALSE

\* @default_value: a str literal becomes an owned String of the same
\* characters, an int or bool literal is the value itself.
DefaultValue(value, kind) ==
    CASE kind = "str" -> [i \in 1..Len(value) |-> value[i]]
      [] kind = "int" -> value
      [] kind = "bool" -> value

\* impl Default for Config: one field per option, from its literal.
Default(sch) == [n \in Names(sch) |-> DefaultValue(OptOf(sch, n).default, OptOf(sch, n).kind)]

(***************************************************************************)
(* lexopt::Parser as parse_impl uses it.  A parser is                      *)
(*   [pos, state, last_option]                                             *)
(* pos: how many elements of the argument sequence the source iterator has *)
(* yielded; state: None, PendingValue(value), Shorts(arg, at) or           *)
(* FinishedOpts; last_option: the option emitted last, as it is printed.   *)
(***************************************************************************)
StNone == [tag |-> "None", arg |-> <<>>, at |-> 0]
StPendingValue(v) == [tag |-> "PendingValue", arg |-> v, at |-> 0]
StShorts(arg, at) == [tag |-> "Shorts", arg |-> arg, at |-> at]
StFinishedOpts == [tag |-> "FinishedOpts", arg |-> <<>>, at |-> 0]

Drop(s, n) == SubSeq(s, n + 1, Len(s))
StartsWithDashDash(s) == Len(s) >= 2 /\ s[1] = Dash /\ s[2] = Dash
HasEq(s) == \E i \in 1..Len(s) : s[i] = Eq
FirstEq(s) == CHOOSE i \in 1..Len(s) : s[i] = Eq /\ \A j \in 1..(i - 1) : s[j] # Eq

\* Arg::Short(c), Arg::Long(name), Arg::Value(token)
ArgShort(c) == [kind |-> "Short", v |-> <<c>>]
ArgLong(name) == [kind |-> "Long", v |-> name]
ArgValue(tok) == [kind |-> "Value", v |-> tok]

\* lexopt::Error, the variants this parser can return.
ErrMissingValue(option) == [kind |-> "MissingValue", option |-> option, value |-> <<>>]
ErrUnexpectedOption(option) == [kind |-> "UnexpectedOption", option |-> option, value |-> <<>>]
ErrUnexpectedArgument(value) == [kind |-> "UnexpectedArgument", option |-> <<>>, value |-> value]
ErrUnexpectedValue(option, value) == [kind |-> "UnexpectedValue", option |-> option, value |-> value]
ErrParsingFailed(value) == [kind |-> "ParsingFailed", option |-> <<>>, value |-> value]
ErrNonUnicodeValue(value) == [kind |-> "NonUnicodeValue", option |-> <<>>, value |-> value]

\* What a call of the parser yields: the parser afterwards and Ok(Some(arg)),
\* Ok(None) or Err(err) (for value(): Ok(value) or Err(err)).
YieldArg(p, arg) == [p |-> p, tag |-> "Arg", arg |-> arg]
YieldEnd(p) == [p |-> p, tag |-> "End"]
YieldErr(p, e) == [p |-> p, tag |-> "Err", err |-> e]
YieldValue(p, v) == [p |-> p, tag |-> "Value", value |-> v]

\* A Parser::from_iter that leaves the first element in the source.
ParserFromIterKeepsName(a) == [pos |-> 0, state |-> StNone, last_option |-> <<>>]

\* Parser::from_iter(args): the first element is taken as the program name.
ParserFromIter(a) ==
    [pos |-> IF Len(a) >= 1 THEN 1 ELSE 0, state |-> StNone, last_option |-> <<>>]

\* Mutant of ParserFromEnv: the program name is left in the source.
ParserFromEnvKeepsName(a) == [pos |-> 0, state |-> StNone, last_option |-> <<>>]

\* Parser::from_env(): the same over std::env::args_os().
ParserFromEnv(a) ==
    [pos |-> IF Len(a) >= 1 THEN 1 ELSE 0, state |-> StNone, last_option |-> <<>>]

\* Parser::next in state FinishedOpts: every remaining element is a Value.
NextFinishedOpts(a, p) ==
    IF p.pos < Len(a)
    THEN YieldArg([p EXCEPT !.pos = p.pos + 1], ArgValue(a[p.pos + 1]))
    ELSE YieldEnd(p)

\* Parser::next inside a -abc chain with a character left at p.state.at.
NextInShorts(p) ==
    LET arg == p.state.arg
        at == p.state.at
        ch == arg[at + 1]
    IN  IF ch = Eq /\ at > 1
        THEN YieldErr([p EXCEPT !.state = StNone],
                      ErrUnexpectedValue(p.last_option, Drop(arg, at + 1)))
        ELSE YieldArg([p EXCEPT !.state = StShorts(arg, at + 1),
                                !.last_option = <<Dash, ch>>],
                      ArgShort(ch))

\* Parser::next reading a fresh element of the argument sequence.
NextFresh(a, p) ==
    IF p.pos >= Len(a) THEN YieldEnd(p)
    ELSE LET arg == a[p.pos + 1]
             q == [p EXCEPT !.pos = p.pos + 1]
         IN  IF arg = tDashDash
             THEN NextFinishedOpts(a, [q EXCEPT !.state = StFinishedOpts])
             ELSE IF StartsWithDashDash(arg)
             THEN LET option == IF HasEq(arg) THEN SubSeq(arg, 1, FirstEq(arg) - 1) ELSE arg
                      st == IF HasEq(arg) THEN StPendingValue(Drop(arg, FirstEq(arg)))
                            ELSE StNone
                  IN  YieldArg([q EXCEPT !.state = st, !.last_option = option],
                               ArgLong(Drop(option, 2)))
             ELSE IF Len(arg) > 1 /\ arg[1] = Dash
             THEN NextInShorts([q EXCEPT !.state = StShorts(arg, 1)])
             ELSE YieldArg(q, ArgValue(arg))

\* Parser::next
ParserNext(a, p) ==
    CASE p.state.tag = "PendingValue" ->
             YieldErr([p EXCEPT !.state = StNone],
                      ErrUnexpectedValue(p.last_option, p.state.arg))
      [] p.state.tag = "Shorts" ->
             IF p.state.at >= Len(p.state.arg)
             THEN NextFresh(a, [p EXCEPT !.state = StNone])
             ELSE NextInShorts(p)
      [] p.state.tag = "FinishedOpts" -> NextFinishedOpts(a, p)
      [] p.state.tag = "None" -> NextFresh(a, p)

\* A Parser::value that reads the next element without consuming it.
ParserValuePeeks(a, p) ==
    LET st == p.state
        attached == st.tag = "PendingValue"
                    \/ (st.tag = "Shorts" /\ st.at < Len(st.arg))
        q == IF st.tag = "FinishedOpts" THEN p ELSE [p EXCEPT !.state = StNone]
    IN  IF attached
        THEN YieldValue(q, IF st.tag = "PendingValue" THEN st.arg
                           ELSE IF st.arg[st.at + 1] = Eq THEN Drop(st.arg, st.at + 1)
                           ELSE Drop(st.arg, st.at))
        ELSE IF q.pos < Len(a)
        THEN YieldValue(q, a[q.pos + 1])
        ELSE YieldErr(q, ErrMissingValue(p.last_option))

\* A Parser::value that knows no attached values: always the next element.
ParserValueNextOnly(a, p) ==
    LET q == IF p.state.tag = "FinishedOpts" THEN p ELSE [p EXCEPT !.state = StNone]
    IN  IF q.pos < Len(a)
        THEN YieldValue([q EXCEPT !.pos = q.pos + 1], a[q.pos + 1])
        ELSE YieldErr(q, ErrMissingValue(p.last_option))

\* Parser::value: the value attached to the option (--opt=value, -ovalue,
\* -o=value) if there is one, else the next element whatever it looks like.
ParserValue(a, p) ==
    LET st == p.state
        attached == st.tag = "PendingValue"
                    \/ (st.tag = "Shorts" /\ st.at < Len(st.arg))
        q == IF st.tag = "FinishedOpts" THEN p ELSE [p EXCEPT !.state = StNone]
    IN  IF attached
        THEN YieldValue(q, IF st.tag = "PendingValue" THEN st.arg
                           ELSE IF st.arg[st.at + 1] = Eq THEN Drop(st.arg, st.at + 1)
                           ELSE Drop(st.arg, st.at))
        ELSE IF q.pos < Len(a)
        THEN YieldValue([q EXCEPT !.pos = q.pos + 1], a[q.pos + 1])
        ELSE YieldErr(q, ErrMissingValue(p.last_option))

\* Arg::unexpected
Unexpected(arg) ==
    CASE arg.kind = "Short" -> ErrUnexpectedOption(<<Dash>> \o arg.v)
      [] arg.kind = "Long" -> ErrUnexpectedOption(<<Dash, Dash>> \o arg.v)
      [] arg.kind = "Value" -> ErrUnexpectedArgument(arg.v)

IsUnicode(v) == \A i \in 1..Len(v) : v[i] # BadByte

(***************************************************************************)
(* str::parse::<i32>                                                       *)
(***************************************************************************)
Digits == {"0", "1", "2", "3", "4", "5", "6", "7", "8", "9"}
DigitVal(c) ==
    CASE c = "0" -> 0 [] c = "1" -> 1 [] c = "2" -> 2 [] c = "3" -> 3 [] c = "4" -> 4
      [] c = "5" -> 5 [] c = "6" -> 6 [] c = "7" -> 7 [] c = "8" -> 8 [] c = "9" -> 9

\* The digits are accumulated left to right, away from zero in the direction
\* of the sign, with checked_mul(10) and checked_add/checked_sub: the parse
\* fails at the first non-digit and at the first step that leaves the i32
\* range.
MulOverflows(acc) == acc > I32Max \div 10 \/ acc < -(I32Max \div 10)
AddOverflows(m, sign, d) ==
    IF sign = 1 THEN d > I32Max - m ELSE m + I32Max < d - 1

\* A digit loop that saturates at the bounds instead of failing.
RECURSIVE AccumulateSaturating(_, _, _)
AccumulateSaturating(digits, sign, acc) ==
    LET bound == IF sign = 1 THEN I32Max ELSE I32Min
    IN  IF digits = <<>> THEN [ok |-> TRUE, val |-> acc]
        ELSE IF Head(digits) \notin Digits THEN [ok |-> FALSE, val |-> 0]
        ELSE IF MulOverflows(acc) THEN [ok |-> TRUE, val |-> bound]
        ELSE IF AddOverflows(acc * 10, sign, DigitVal(Head(digits)))
        THEN [ok |-> TRUE, val |-> bound]
        ELSE AccumulateSaturating(Tail(digits), sign, acc * 10 + sign * DigitVal(Head(digits)))

RECURSIVE Accumulate(_, _, _)
Accumulate(digits, sign, acc) ==
    IF digits = <<>> THEN [ok |-> TRUE, val |-> acc]
    ELSE IF Head(digits) \notin Digits THEN [ok |-> FALSE, val |-> 0]
    ELSE IF MulOverflows(acc) THEN [ok |-> FALSE, val |-> 0]
    ELSE IF AddOverflows(acc * 10, sign, DigitVal(Head(digits)))
    THEN [ok |-> FALSE, val |-> 0]
    ELSE Accumulate(Tail(digits), sign, acc * 10 + sign * DigitVal(Head(digits)))

ParseI32(s) ==
    IF s = <<>> THEN [ok |-> FALSE, val |-> 0]
    ELSE IF s[1] \in {"+", "-"}
    THEN IF Len(s) = 1 THEN [ok |-> FALSE, val |-> 0]
         ELSE Accumulate(Tail(s), IF s[1] = "-" THEN -1 ELSE 1, 0)
    ELSE Accumulate(s, 1, 0)

(***************************************************************************)
(* The generated parser                                                    *)
(***************************************************************************)
\* Result<Config, lexopt::Error>
Ok(cfg) == [kind |-> "Ok", config |-> cfg]
Err(e) == [kind |-> "Err", err |-> e]
NoResult == [kind |-> "None"]

\* Mutant of ArmMatches: the Long arm's pattern is written with its dashes
\* ("--config"), which no Long argument equals.
ArmMatchesDashedLong(o, arg) ==
    \/ o.hasShort /\ arg.kind = "Short" /\ arg.v = <<o.short>>
    \/ o.hasLong /\ arg.kind = "Long" /\ arg.v = <<Dash, Dash>> \o o.long

\* The match arms of parse_impl, in the order the macro emits them: for each
\* option its Short arm, then its Long arm.  0 stands for the fallback arm.
ArmMatches(o, arg) ==
    \/ o.hasShort /\ arg.kind = "Short" /\ arg.v = <<o.short>>
    \/ o.hasLong /\ arg.kind = "Long" /\ arg.v = o.long

MatchArm(sch, arg) ==
    IF \E i \in DOMAIN sch : ArmMatches(sch[i], arg)
    THEN CHOOSE i \in DOMAIN sch :
             ArmMatches(sch[i], arg) /\ \A j \in 1..(i - 1) : ~ArmMatches(sch[j], arg)
    ELSE 0

\* $config.$name = value
Assign(cfg, name, value) == [cfg EXCEPT ![name] = value]

\* An arm's outcome: the parser and the record afterwards, the error the ?
\* operator returns (if any), and the value token the arm consumed.
ArmOk(p, cfg, src, raw) ==
    [p |-> p, config |-> cfg, failed |-> FALSE, err |-> ErrMissingValue(<<>>),
     src |-> src, raw |-> raw]
ArmErr(p, cfg, e, src, raw) ==
    [p |-> p, config |-> cfg, failed |-> TRUE, err |-> e, src |-> src, raw |-> raw]

\* Where value() took the value from.
ValueSrc(p, y) ==
    IF y.tag = "Err" THEN "missing" ELSE IF y.p.pos > p.pos THEN "next" ELSE "attached"

\* Mutant of ParseValueStr: a missing value is not propagated, the field
\* keeps what it held.
ParseValueStrLenient(a, p, cfg, name) ==
    LET y == ParserValue(a, p)
    IN  IF y.tag = "Err" THEN ArmOk(y.p, cfg, "missing", <<>>)
        ELSE IF ~IsUnicode(y.value)
        THEN ArmErr(y.p, cfg, ErrNonUnicodeValue(y.value), ValueSrc(p, y), y.value)
        ELSE ArmOk(y.p, Assign(cfg, name, y.value), ValueSrc(p, y), y.value)

\* A str arm that refuses a value spelled like an option.
ParseValueStrRejectsOptions(a, p, cfg, name) ==
    LET y == ParserValue(a, p)
    IN  IF y.tag = "Err" THEN ArmErr(y.p, cfg, y.err, "missing", <<>>)
        ELSE IF y.value # <<>> /\ y.value[1] = Dash
        THEN ArmErr(p, cfg, ErrUnexpectedOption(y.value), "missing", <<>>)
        ELSE IF ~IsUnicode(y.value)
        THEN ArmErr(y.p, cfg, ErrNonUnicodeValue(y.value), ValueSrc(p, y), y.value)
        ELSE ArmOk(y.p, Assign(cfg, name, y.value), ValueSrc(p, y), y.value)

\* @parse_value ..., str:  $config.$name = $parser.value()?.string()?
ParseValueStr(a, p, cfg, name) ==
    LET y == ParserValue(a, p)
    IN  IF y.tag = "Err" THEN ArmErr(y.p, cfg, y.err, "missing", <<>>)
        ELSE IF ~IsUnicode(y.value)
        THEN ArmErr(y.p, cfg, ErrNonUnicodeValue(y.value), ValueSrc(p, y), y.value)
        ELSE ArmOk(y.p, Assign(cfg, name, y.value), ValueSrc(p, y), y.value)

\* Mutant of ParseValueInt: a value that does not parse is not propagated,
\* the field keeps what it held.
ParseValueIntSilent(a, p, cfg, name) ==
    LET y == ParserValue(a, p)
    IN  IF y.tag = "Err" THEN ArmErr(y.p, cfg, y.err, "missing", <<>>)
        ELSE IF ~IsUnicode(y.value) \/ ~ParseI32(y.value).ok
        THEN ArmOk(y.p, cfg, ValueSrc(p, y), y.value)
        ELSE ArmOk(y.p, Assign(cfg, name, ParseI32(y.value).val), ValueSrc(p, y), y.value)

\* @parse_value ..., int:  $config.$name = $parser.value()?.parse()?
ParseValueInt(a, p, cfg, name) ==
    LET y == ParserValue(a, p)
    IN  IF y.tag = "Err" THEN ArmErr(y.p, cfg, y.err, "missing", <<>>)
        ELSE IF ~IsUnicode(y.value)
        THEN ArmErr(y.p, cfg, ErrNonUnicodeValue(y.value), ValueSrc(p, y), y.value)
        ELSE IF ~ParseI32(y.value).ok
        THEN ArmErr(y.p, cfg, ErrParsingFailed(y.value), ValueSrc(p, y), y.value)
        ELSE ArmOk(y.p, Assign(cfg, name, ParseI32(y.value).val), ValueSrc(p, y), y.value)

\* Mutant of ParseValueBool: the arm also sets the verbose field.
ParseValueBoolAlsoVerbose(p, cfg, name) ==
    ArmOk(p, Assign(Assign(cfg, name, TRUE), "verbose", TRUE), "none", <<>>)

\* A bool arm that toggles the field.
ParseValueBoolToggles(p, cfg, name) == ArmOk(p, Assign(cfg, name, ~cfg[name]), "none", <<>>)

\* @parse_value ..., bool:  $config.$name = true
ParseValueBool(p, cfg, name) == ArmOk(p, Assign(cfg, name, TRUE), "none", <<>>)

\* Mutant of ParseValue: an arm's error does not end the pass.
ParseValueKeepsGoing(a, p, cfg, o) ==
    LET r == CASE o.kind = "str" -> ParseValueStr(a, p, cfg, o.name)
               [] o.kind = "int" -> ParseValueInt(a, p, cfg, o.name)
               [] o.kind = "bool" -> ParseValueBool(p, cfg, o.name)
    IN  [r EXCEPT !.failed = FALSE]

\* cli_config!(@parse_value config, parser, $name, $kind)
ParseValue(a, p, cfg, o) ==
    CASE o.kind = "str" -> ParseValueStr(a, p, cfg, o.name)
      [] o.kind = "int" -> ParseValueInt(a, p, cfg, o.name)
      [] o.kind = "bool" -> ParseValueBool(p, cfg, o.name)

\* Mutant of Fallback: an argument that matches no arm is skipped.
FallbackSkips(p, cfg, arg) == ArmOk(p, cfg, "none", <<>>)

\* A fallback arm that reports the error without the argument.
FallbackLosesToken(p, cfg, arg) == ArmErr(p, cfg, ErrUnexpectedArgument(<<>>), "none", <<>>)

\* The fallback arm:  _ => return Err(arg.unexpected())
Fallback(p, cfg, arg) == ArmErr(p, cfg, Unexpected(arg), "none", <<>>)

\* Mutant of Turn: on an error the loop is left and the record built so far
\* is returned as a success.
TurnReturnsPartial(p, cfg, returns, res, from, arg, opt, src, raw) ==
    [p |-> p, config |-> cfg, returns |-> returns,
     result |-> IF returns /\ res.kind = "Err" THEN [kind |-> "Ok", config |-> cfg] ELSE res,
     ev |-> [from |-> from, to |-> p.pos, arg |-> arg, opt |-> opt, src |-> src,
             raw |-> raw, failed |-> returns /\ res.kind = "Err"]]

\* What one turn of the loop leaves: the parser and the working record, whether
\* the function returns and with what, and a record of the turn (the tokens
\* pos+1..to it consumed, the Arg it got, the option it dispatched to, where
\* the value came from).
Turn(p, cfg, returns, res, from, arg, opt, src, raw) ==
    [p |-> p, config |-> cfg, returns |-> returns, result |-> res,
     ev |-> [from |-> from, to |-> p.pos, arg |-> arg, opt |-> opt, src |-> src,
             raw |-> raw, failed |-> returns /\ res.kind = "Err"]]

ArgEnd == [kind |-> "End", v |-> <<>>]
ArgNone == [kind |-> "Err", v |-> <<>>]

\* Mutant of LoopBody: an arm stores its value only while the field still
\* holds its default, so that the first occurrence of an option wins.
LoopBodyFirstWins(sch, a, p, cfg) ==
    LET y == ParserNext(a, p)
    IN  CASE y.tag = "Err" ->
                 Turn(y.p, cfg, TRUE, Err(y.err), p.pos, ArgNone, "", "none", <<>>)
          [] y.tag = "End" ->
                 Turn(y.p, cfg, TRUE, Ok(cfg), p.pos, ArgEnd, "", "none", <<>>)
          [] y.tag = "Arg" ->
                 LET i == MatchArm(sch, y.arg)
                     q == IF i = 0 THEN Fallback(y.p, cfg, y.arg)
                          ELSE ParseValue(a, y.p, cfg, sch[i])
                     r == IF i # 0 /\ ~q.failed
                             /\ cfg[sch[i].name] # Default(sch)[sch[i].name]
                          THEN [q EXCEPT !.config = cfg] ELSE q
                 IN  Turn(r.p, r.config, r.failed,
                          IF r.failed THEN Err(r.err) ELSE NoResult,
                          p.pos, y.arg, IF i = 0 THEN "" ELSE sch[i].name, r.src, r.raw)

\* One turn of  while let Some(arg) = parser.next()? { match arg { ... } }
\* and, when the loop ends, Ok(config).
LoopBody(sch, a, p, cfg) ==
    LET y == ParserNext(a, p)
    IN  CASE y.tag = "Err" ->
                 Turn(y.p, cfg, TRUE, Err(y.err), p.pos, ArgNone, "", "none", <<>>)
          [] y.tag = "End" ->
                 Turn(y.p, cfg, TRUE, Ok(cfg), p.pos, ArgEnd, "", "none", <<>>)
          [] y.tag = "Arg" ->
                 LET i == MatchArm(sch, y.arg)
                     r == IF i = 0 THEN Fallback(y.p, cfg, y.arg)
                          ELSE ParseValue(a, y.p, cfg, sch[i])
                 IN  Turn(r.p, r.config, r.failed,
                          IF r.failed THEN Err(r.err) ELSE NoResult,
                          p.pos, y.arg, IF i = 0 THEN "" ELSE sch[i].name, r.src, r.raw)

\* parse_impl as a function of the parser it is given: the loop run to its
\* return, starting from Self::default().
RECURSIVE RunLoop(_, _, _, _)
RunLoop(sch, a, p, cfg) ==
    LET t == LoopBody(sch, a, p, cfg)
    IN  IF t.returns THEN t.result ELSE RunLoop(sch, a, t.p, t.config)

ParseImpl(sch, a, p) == RunLoop(sch, a, p, Default(sch))

\* Config::parse_from(args) as a function of its argument.
ParseFromResult(sch, a) == ParseImpl(sch, a, ParserFromIter(a))

(***************************************************************************)
(* Inputs                                                                  *)
(***************************************************************************)
tShortR5 == <<Dash, "r", "5">>
tLongRetriesEq7 == tLongRetries \o <<Eq, "7">>
tClusterDR == <<Dash, "d", "r">>
tShortCEqP == <<Dash, "c", Eq, "p">>
tClusterDC == <<Dash, "d", "c">>
tClusterVH == <<Dash, "v", "h">>
tShortUpCP == <<Dash, "C", "p">>
tLongConfigEqP == tLongConfig \o <<Eq, "p">>

tI32Max == <<"2", "1", "4", "7", "4", "8", "3", "6", "4", "7">>
tI32MaxPlus1 == <<"2", "1", "4", "7", "4", "8", "3", "6", "4", "8">>
tI32Min == <<Dash>> \o tI32MaxPlus1
tI32MinMinus1 == <<Dash, "2", "1", "4", "7", "4", "8", "3", "6", "4", "9">>
tMinus5 == <<Dash, "5">>
tElevenNines == <<"9", "9", "9", "9", "9", "9", "9", "9", "9", "9", "9">>

SchemaIds == {"core_tests", "peace_cli"}
Schema(id) == IF id = "core_tests" THEN TestSchema ELSE CliSchema

\* The argument sequences explored: a program name followed by at most
\* MaxArgs tokens, all drawn from one of these small vocabularies.
TokenSets(id) ==
    IF id = "core_tests"
    THEN { {tShortR, tLongRetries, tFive, tSeven},
           {tShortC, tLongConfig, tPath, tShortD},
           {tShortD, tLongDebug, tLongVerbose, tShortX},
           {tShortD, tDashDash, tAbc, tShortR},
           {tShortR, tLongRetries, tAbc, tEmpty},
           {tShortC, tShortR, tBad, tFive},
           {tShortD, tLongDebugEqX, tClusterDX, tLongVerbose} }
    ELSE { {tShortUpC, tPath, tLongHelp, tShortUpV},
           {tShortV, tLongVersion, tShortH, tShortX} }

SeqsUpTo(S, n) == UNION {[1..k -> S] : k \in 0..n}

ArgSeqs(id) ==
    {<<>>} \cup {<<tProgram>> \o s : s \in UNION {SeqsUpTo(S, MaxArgs) : S \in TokenSets(id)}}

(***************************************************************************)
(* State                                                                   *)
(***************************************************************************)
VARIABLES
    schema,   \* which cli_config! invocation generated Config
    args,     \* the argument sequence: the process's arguments, which is
              \* also what the caller hands to parse_from
    pc,       \* "idle", or "parse_impl" while the loop of a call runs
    entry,    \* the entry point of the call running or last returned
    parser,   \* parse_impl's parser
    config,   \* parse_impl's working record (a local of the call)
    log,      \* the turns of the loop of that call, in order
    ret,      \* what the caller received from the last call of each entry point
    dflt,     \* what the caller received from Config::default()
    seen,     \* the input and the result of the first call that returned, and
              \* whether a call with another input has returned since
    main      \* peace-cli's main: its position, what it did so far, how it ended

vars == <<schema, args, pc, entry, parser, config, log, ret, dflt, seen, main>>

Entries == {"parse_from", "parse_env"}

NotSeen == [kind |-> "None"]
NoMain == [pc |-> "none", out |-> <<>>, status |-> "none"]

\* Nothing was called yet.
BeforeAnyCall ==
    /\ pc = "idle"
    /\ entry = "none"
    /\ parser = ParserFromIter(<<>>)
    /\ config = Default(Schema(schema))
    /\ log = <<>>
    /\ ret = [e \in Entries |-> NoResult]
    /\ dflt = NoResult
    /\ seen = NotSeen

Init ==
    /\ schema \in SchemaIds
    /\ args \in ArgSeqs(schema)
    /\ BeforeAnyCall
    /\ main = NoMain

\* Config::default()
ConfigDefault ==
    /\ pc = "idle"
    /\ dflt' = [kind |-> "Config", config |-> Default(Schema(schema))]
    /\ UNCHANGED <<schema, args, pc, entry, parser, config, log, ret, seen, main>>

\* parse_impl with a working record that outlives the call (a static)
EnterParseImplStale(e, p) ==
    /\ pc = "idle"
    /\ pc' = "parse_impl"
    /\ entry' = e
    /\ parser' = p
    /\ config' = config
    /\ log' = <<>>
    /\ ret' = [ret EXCEPT ![e] = NoResult]
    /\ UNCHANGED <<schema, dflt, seen>>

\* The call enters parse_impl with the parser p:  let mut config = Self::default();
\* (the caller's side, args and main, is left to the action that makes the call)
EnterParseImpl(e, p) ==
    /\ pc = "idle"
    /\ pc' = "parse_impl"
    /\ entry' = e
    /\ parser' = p
    /\ config' = Default(Schema(schema))
    /\ log' = <<>>
    /\ ret' = [ret EXCEPT ![e] = NoResult]
    /\ UNCHANGED <<schema, dflt, seen>>

\* Config::parse_from(args)
ParseFrom ==
    /\ EnterParseImpl("parse_from", ParserFromIter(args))
    /\ UNCHANGED <<args, main>>

\* Config::parse_env()
ParseEnv ==
    /\ EnterParseImpl("parse_env", ParserFromEnv(args))
    /\ UNCHANGED <<args, main>>

\* What the history keeps when a call returns the result r.
Remember(r) ==
    IF seen.kind = "None"
    THEN [kind |-> "Seen", args |-> args, result |-> r, other |-> FALSE]
    ELSE IF seen.args # args THEN [seen EXCEPT !.other = TRUE] ELSE seen

\* One turn of parse_impl's loop; the turn that returns hands the result to
\* the caller.
LoopTurn ==
    /\ pc = "parse_impl"
    /\ LET t == LoopBody(Schema(schema), args, parser, config)
       IN  /\ parser' = t.p
           /\ config' = t.config
           /\ log' = Append(log, t.ev)
           /\ pc' = IF t.returns THEN "idle" ELSE "parse_impl"
           /\ ret' = IF t.returns THEN [ret EXCEPT ![entry] = t.result] ELSE ret
           /\ seen' = IF t.returns THEN Remember(t.result) ELSE seen
    /\ UNCHANGED <<schema, args, entry, dflt, main>>

Next == ConfigDefault \/ ParseFrom \/ ParseEnv \/ LoopTurn

Spec == Init /\ [][Next]_vars

(***************************************************************************)
(* A caller that makes parse_from calls one after the other, each with an  *)
(* input of its choice                                                     *)
(***************************************************************************)
MaxCallArgs == 2

CallTokens(id) ==
    IF id = "core_tests" THEN {tShortD, tShortR, tFive} ELSE {tShortV, tShortH, tShortX}

CallInputs(id) == {<<tProgram>> \o s : s \in SeqsUpTo(CallTokens(id), MaxCallArgs)}

InitCalls ==
    /\ schema \in SchemaIds
    /\ args \in CallInputs(schema)
    /\ BeforeAnyCall
    /\ main = NoMain

\* Config::parse_from(a), for any input a
ParseFromAny ==
    \E a \in CallInputs(schema) :
        /\ args' = a
        /\ EnterParseImpl("parse_from", ParserFromIter(a))
        /\ UNCHANGED main

NextCalls == ConfigDefault \/ ParseFromAny \/ LoopTurn

SpecCalls == InitCalls /\ [][NextCalls]_vars

(***************************************************************************)
(* peace-cli: fn main                                                      *)
(***************************************************************************)
InitCli ==
    /\ schema = "peace_cli"
    /\ args \in ArgSeqs("peace_cli")
    /\ BeforeAnyCall
    /\ main = [pc |-> "start", out |-> <<>>, status |-> "running"]

\* What main leaves alone: the parser's side.
ParseSide == <<schema, args, pc, entry, parser, config, log, ret, dflt, seen>>

\* main stops: it returned Ok(()) ("ok") or an error ("failure"), or called
\* std::process::exit(0) ("exit0").
MainEnds(did, how) == [pc |-> "done", out |-> main.out \o did, status |-> how]
MainGoes(to, did) == [main EXCEPT !.pc = to, !.out = main.out \o did]

\* let config = Config::parse_env()?;  -- the call
MainParseEnv ==
    /\ main.pc = "start"
    /\ EnterParseImpl("parse_env", ParserFromEnv(args))
    /\ main' = MainGoes("parse_env", <<>>)
    /\ UNCHANGED args

\* let config = Config::parse_env()?;  -- the ? on the returned result
MainParsed ==
    /\ main.pc = "parse_env" /\ pc = "idle"
    /\ main' = IF ret["parse_env"].kind = "Err" THEN MainEnds(<<>>, "failure")
               ELSE MainGoes("help", <<>>)
    /\ UNCHANGED ParseSide

\* A main that looks at version before help.
MainCheckHelpAfterVersion ==
    /\ main.pc = "help"
    /\ main' = IF ret["parse_env"].config["version"] THEN MainEnds(<<"version">>, "exit0")
               ELSE IF ret["parse_env"].config["help"] THEN MainEnds(<<"help">>, "exit0")
               ELSE MainGoes("version", <<>>)
    /\ UNCHANGED ParseSide

\* if config.help { print_help(); std::process::exit(0); }
MainCheckHelp ==
    /\ main.pc = "help"
    /\ main' = IF ret["parse_env"].config["help"] THEN MainEnds(<<"help">>, "exit0")
               ELSE MainGoes("version", <<>>)
    /\ UNCHANGED ParseSide

\* if config.version { print_version(); std::process::exit(0); }
MainCheckVersion ==
    /\ main.pc = "version"
    /\ main' = IF ret["parse_env"].config["version"] THEN MainEnds(<<"version">>, "exit0")
               ELSE MainGoes("logging", <<>>)
    /\ UNCHANGED ParseSide

\* let ll = if config.verbose { LevelFilter::DEBUG } else { LevelFilter::INFO };
LevelFilter(verbose) == IF verbose THEN "DEBUG" ELSE "INFO"

\* tracing_subscriber::registry().with(stdout).with(ll).init(); info!("app ready");
MainInitLogging ==
    /\ main.pc = "logging"
    /\ main' = MainGoes("python", <<"init " \o LevelFilter(ret["parse_env"].config["verbose"]),
                                    "app ready">>)
    /\ UNCHANGED ParseSide

\* let result = peace_core::run_python_qdrant()?; info!("{}", result); Ok(())
\* The interpreter's outcome is not the parser's business: either one.
MainRunPython ==
    /\ main.pc = "python"
    /\ \E failed \in BOOLEAN :
           main' = IF failed THEN MainEnds(<<"run_python_qdrant">>, "failure")
                   ELSE MainEnds(<<"run_python_qdrant", "result">>, "ok")
    /\ UNCHANGED ParseSide

NextCli ==
    \/ MainParseEnv \/ LoopTurn \/ MainParsed \/ MainCheckHelp \/ MainCheckVersion
    \/ MainInitLogging \/ MainRunPython

SpecCli == InitCli /\ [][NextCli]_vars

(***************************************************************************)
(* Argument sequences whose first element is spelled like a flag           *)
(***************************************************************************)
MaxNamedArgs == 2

ProgramNames(id) ==
    IF id = "core_tests" THEN {tProgram, tShortD, tShortX, tDashDash}
    ELSE {tProgram, tShortV, tShortX, tDashDash}

NamedTokens(id) ==
    IF id = "core_tests" THEN {tShortD, tShortR, tFive, tLongVerbose}
    ELSE {tShortV, tShortUpC, tPath, tShortH}

NamedArgSeqs(id) ==
    {<<>>} \cup {<<n>> \o s : n \in ProgramNames(id), s \in SeqsUpTo(NamedTokens(id), MaxNamedArgs)}

InitNamed ==
    /\ schema \in SchemaIds
    /\ args \in NamedArgSeqs(schema)
    /\ BeforeAnyCall
    /\ main = NoMain

SpecNamed == InitNamed /\ [][Next]_vars

(***************************************************************************)
(* Argument sequences with integers at and beyond the bounds of i32        *)
(***************************************************************************)
MaxRangeArgs == 4

RangeTokenSets ==
    { {tShortR, tI32Max, tI32Min, tMinus5},
      {tLongRetries, tI32MaxPlus1, tI32MinMinus1, tElevenNines} }

RangeArgSeqs ==
    {<<tProgram>> \o s : s \in UNION {SeqsUpTo(S, MaxRangeArgs) : S \in RangeTokenSets}}

InitRange ==
    /\ schema = "core_tests"
    /\ args \in RangeArgSeqs
    /\ BeforeAnyCall
    /\ main = NoMain

SpecRange == InitRange /\ [][Next]_vars

(***************************************************************************)
(* Argument sequences mixing flags, values, clusters and --                *)
(***************************************************************************)
MaxPassArgs == 3

PassTokenSets(id) ==
    IF id = "core_tests"
    THEN { {tShortD, tShortC, tDashDash, tAbc},
           {tClusterDR, tLongRetriesEq7, tFive, tShortX} }
    ELSE { {tClusterVH, tShortUpC, tPath, tDashDash} }

PassArgSeqs(id) ==
    {<<>>} \cup {<<tProgram>> \o s : s \in UNION {SeqsUpTo(S, MaxPassArgs) : S \in PassTokenSets(id)}}

InitPass ==
    /\ schema \in SchemaIds
    /\ args \in PassArgSeqs(schema)
    /\ BeforeAnyCall
    /\ main = NoMain

SpecPass == InitPass /\ [][Next]_vars

(***************************************************************************)
(* Argument sequences with attached values and short-option clusters       *)
(***************************************************************************)
MaxAttachedArgs == 3

AttachedTokenSets(id) ==
    IF id = "core_tests"
    THEN { {tShortR5, tLongRetriesEq7, tClusterDR, tFive},
           {tShortCEqP, tClusterDC, tLongDebugEqX, tShortD} }
    ELSE { {tClusterVH, tShortUpCP, tLongConfigEqP, tShortX} }

AttachedArgSeqs(id) ==
    {<<tProgram>> \o s : s \in UNION {SeqsUpTo(S, MaxAttachedArgs) : S \in AttachedTokenSets(id)}}

InitAttached ==
    /\ schema \in SchemaIds
    /\ args \in AttachedArgSeqs(schema)
    /\ BeforeAnyCall
    /\ main = NoMain

SpecAttached == InitAttached /\ [][Next]_vars

(***************************************************************************)
(* Properties                                                              *)
(***************************************************************************)
Sch == Schema(schema)

\* A call of parse_from has returned and no other call was made since.
FromDone == pc = "idle" /\ entry = "parse_from"
\* A call of either entry point has returned and no other call was made since.
CallDone == pc = "idle" /\ entry \in Entries
Res == ret[entry]

\* The options the loop dispatched to during the call.
Dispatched == {log[i].opt : i \in DOMAIN log} \ {""}
TurnsOf(n) == {i \in DOMAIN log : log[i].opt = n}
LastTurnOf(n) == CHOOSE i \in TurnsOf(n) : \A j \in TurnsOf(n) : j <= i

\* The value a turn took: the element of args it consumed, or the text
\* attached to the option.
ValueTaken(i) == IF log[i].src = "next" THEN args[log[i].to] ELSE log[i].raw

\* C1: Config::default() returns, for every schema, the record whose every
\* field equals the literal the schema declares for it (for the schema of
\* the core's tests: "~/.config.json", 3, false, false); it cannot fail and
\* needs no parse before it.
C1_DefaultEqualsLiterals ==
    dflt.kind # "None" =>
        /\ dflt.kind = "Config"
        /\ DOMAIN dflt.config = Names(Sch)
        /\ \A i \in DOMAIN Sch : dflt.config[Sch[i].name] = Sch[i].default
        /\ schema = "core_tests" =>
               /\ dflt.config.config_path =
                      <<"~", "/", ".", "c", "o", "n", "f", "i", "g", ".", "j", "s", "o", "n">>
               /\ dflt.config.max_retries = 3
               /\ dflt.config.debug = FALSE
               /\ dflt.config.verbose = FALSE

\* Config::default() has returned before any parse was started.
C1_Witness == dflt.kind = "Config" /\ entry = "none"

\* C2: when parse_from succeeds, every field whose option no flag of the
\* sequence was dispatched to equals its schema default.
C2_UntargetedFieldsKeepDefault ==
    (FromDone /\ Res.kind = "Ok") =>
        \A n \in Names(Sch) \ Dispatched : Res.config[n] = Default(Sch)[n]

\* A successful parse that changed one field and left another, never
\* targeted, at its default.
C2_Witness ==
    /\ FromDone /\ Res.kind = "Ok"
    /\ \E n \in Dispatched : Res.config[n] # Default(Sch)[n]
    /\ Names(Sch) \ Dispatched # {}

\* C3: when parse_from succeeds, the field of every option that was supplied
\* holds the value of its last occurrence: the token that followed it (text
\* verbatim, integer as parsed) for a value-kind option, true for a Flag-kind
\* option however often it occurred.
C3_LastOccurrenceWins ==
    (FromDone /\ Res.kind = "Ok") =>
        \A n \in Dispatched :
            LET k == OptOf(Sch, n).kind
                v == ValueTaken(LastTurnOf(n))
            IN  CASE k = "bool" -> Res.config[n] = TRUE
                  [] k = "str" -> Res.config[n] = v
                  [] k = "int" -> ParseI32(v).ok /\ Res.config[n] = ParseI32(v).val

\* A successful parse in which an Integer-kind option occurred twice with
\* different values and the field holds the second.
C3_Witness ==
    /\ FromDone /\ Res.kind = "Ok"
    /\ \E n \in Dispatched :
           /\ OptOf(Sch, n).kind = "int"
           /\ \E i, j \in TurnsOf(n) : i < j /\ ValueTaken(i) # ValueTaken(j)
                                        /\ j = LastTurnOf(n)
                                        /\ Res.config[n] = ParseI32(ValueTaken(j)).val

\* The spellings of an option as whole tokens.
ShortSpelling(o) == <<Dash, o.short>>
LongSpelling(o) == <<Dash, Dash>> \o o.long
SpellingsOf(o) ==
    (IF o.hasShort THEN {ShortSpelling(o)} ELSE {}) \cup (IF o.hasLong THEN {LongSpelling(o)} ELSE {})
DeclaredSpellings == UNION {SpellingsOf(Sch[i]) : i \in DOMAIN Sch}

\* The elements of args that turn i read with parser.next(), i.e. in flag
\* position: all it consumed but the one parser.value() took.
LastFlagIdx(i) == IF log[i].src = "next" THEN log[i].to - 1 ELSE log[i].to
FlagTokens(i) == (log[i].from + 1)..LastFlagIdx(i)

\* Turn i read a token of its own and dispatched it to an option.
ReadsFlagToken(i) == log[i].opt # "" /\ LastFlagIdx(i) > log[i].from
FlagIdx(i) == log[i].from + 1

SameOutcome(r1, r2) ==
    /\ r1.kind = r2.kind
    /\ r1.kind = "Ok" => r1.config = r2.config
    /\ r1.kind = "Err" => r1.err.kind = r2.err.kind

\* C4: for an option declared with both spellings, replacing a token that the
\* pass read as that option's flag by the option's other spelling, all other
\* tokens (its value token included) unchanged, gives the same outcome of
\* parse_from: the same record, or an error of the same kind.
C4_ShortLongEquivalence ==
    FromDone =>
        \A i \in DOMAIN log :
            ReadsFlagToken(i) =>
                LET o == OptOf(Sch, log[i].opt)
                    k == FlagIdx(i)
                IN  /\ (o.hasShort /\ o.hasLong /\ args[k] = ShortSpelling(o)) =>
                           SameOutcome(Res, ParseFromResult(Sch, [args EXCEPT ![k] = LongSpelling(o)]))
                    /\ (o.hasShort /\ o.hasLong /\ args[k] = LongSpelling(o)) =>
                           SameOutcome(Res, ParseFromResult(Sch, [args EXCEPT ![k] = ShortSpelling(o)]))

\* A successful parse that read the short spelling of a value-kind option,
\* followed by its value, and whose long-spelling variant succeeds too.
C4_Witness ==
    /\ FromDone /\ Res.kind = "Ok"
    /\ \E i \in DOMAIN log :
           /\ ReadsFlagToken(i)
           /\ OptOf(Sch, log[i].opt).kind # "bool"
           /\ OptOf(Sch, log[i].opt).hasLong
           /\ args[FlagIdx(i)] = ShortSpelling(OptOf(Sch, log[i].opt))
           /\ log[i].src = "next"
           /\ ParseFromResult(Sch, [args EXCEPT ![FlagIdx(i)] =
                                        LongSpelling(OptOf(Sch, log[i].opt))]) = Res

UnrecognizedKinds == {"UnexpectedOption", "UnexpectedArgument"}

\* C5 as stated: whenever a token read in flag position is not a spelling
\* the schema declares, parse_from stops at it and returns an
\* UnrecognizedArgument error that references that token.
C5_AsStated ==
    FromDone =>
        \A i \in DOMAIN log : \A k \in FlagTokens(i) :
            args[k] \notin DeclaredSpellings =>
                /\ i = Len(log)
                /\ Res.kind = "Err"
                /\ Res.err.kind \in UnrecognizedKinds
                /\ args[k] \in {Res.err.option, Res.err.value}

\* C5 as amended: whenever the argument the classifier hands to the match is
\* an option with no dispatch entry or a bare value, that turn is the last
\* one, no further token is read, and parse_from returns UnexpectedOption
\* carrying the option's spelling ("-x", "--name") or UnexpectedArgument
\* carrying the value token.
C5_UnmatchedArgIsRejected ==
    FromDone =>
        \A i \in DOMAIN log :
            (log[i].opt = "" /\ log[i].arg.kind \in {"Short", "Long", "Value"}) =>
                /\ i = Len(log)
                /\ parser.pos = log[i].to
                /\ Res.kind = "Err"
                /\ CASE log[i].arg.kind = "Short" ->
                            /\ Res.err.kind = "UnexpectedOption"
                            /\ Res.err.option = <<Dash>> \o log[i].arg.v
                     [] log[i].arg.kind = "Long" ->
                            /\ Res.err.kind = "UnexpectedOption"
                            /\ Res.err.option = <<Dash, Dash>> \o log[i].arg.v
                     [] log[i].arg.kind = "Value" ->
                            /\ Res.err.kind = "UnexpectedArgument"
                            /\ Res.err.value = args[log[i].to]

\* A parse that applied a flag, then met an undeclared short option with
\* tokens still following it, and returned UnexpectedOption for it.
C5_Witness ==
    /\ FromDone /\ Res.kind = "Err" /\ Res.err.kind = "UnexpectedOption"
    /\ Len(log) >= 2
    /\ log[Len(log)].opt = "" /\ log[Len(log)].arg.kind = "Short"
    /\ Res.err.option = args[log[Len(log)].to]
    /\ parser.pos < Len(args)

\* C6: whenever the last token of the sequence is a spelling of a value-kind
\* option and the pass reads it as that option's flag, parse_from returns
\* MissingValue naming that spelling, and no record.
C6_ValueFlagLastIsMissingValue ==
    FromDone =>
        \A i \in DOMAIN log :
            (/\ ReadsFlagToken(i)
             /\ OptOf(Sch, log[i].opt).kind \in {"str", "int"}
             /\ FlagIdx(i) = Len(args)
             /\ args[FlagIdx(i)] \in SpellingsOf(OptOf(Sch, log[i].opt))) =>
                /\ i = Len(log)
                /\ Res.kind = "Err"
                /\ Res.err.kind = "MissingValue"
                /\ Res.err.option = args[Len(args)]

\* A parse that set a field and then read a value-kind flag as the last token.
C6_Witness ==
    /\ FromDone /\ Res.kind = "Err" /\ Res.err.kind = "MissingValue"
    /\ Len(log) >= 2
    /\ ReadsFlagToken(Len(log))
    /\ FlagIdx(Len(log)) = Len(args)
    /\ config # Default(Sch)

\* A token that is a base-10 signed integer: an optional sign, then digits.
IsDecimal(tok) ==
    LET body == IF tok # <<>> /\ tok[1] \in {"+", "-"} THEN Tail(tok) ELSE tok
    IN  body # <<>> /\ \A j \in DOMAIN body : body[j] \in Digits

InvalidValueKinds == {"ParsingFailed", "NonUnicodeValue"}

\* C7: whenever an Integer-kind flag takes as its value a following token that
\* is not a base-10 signed integer, that turn is the last one and parse_from
\* returns an invalid-value error (ParsingFailed, or NonUnicodeValue for a
\* token that is not UTF-8), never a record.
C7_NonNumericIsInvalidValue ==
    FromDone =>
        \A i \in DOMAIN log :
            (/\ log[i].opt # ""
             /\ OptOf(Sch, log[i].opt).kind = "int"
             /\ log[i].src = "next"
             /\ ~IsDecimal(args[log[i].to])) =>
                /\ i = Len(log)
                /\ Res.kind = "Err"
                /\ Res.err.kind \in InvalidValueKinds
                /\ Res.err.value = args[log[i].to]
                /\ IsUnicode(args[log[i].to]) => Res.err.kind = "ParsingFailed"

\* A parse that set the Integer field, then met the same flag followed by
\* "abc" or by the empty string, and returned ParsingFailed.
C7_Witness ==
    /\ FromDone /\ Res.kind = "Err" /\ Res.err.kind = "ParsingFailed"
    /\ Len(log) >= 2
    /\ log[Len(log)].src = "next"
    /\ args[log[Len(log)].to] \in {tAbc, tEmpty}
    /\ config # Default(Sch)

\* Turn i met an error: next() failed, the argument matched no arm, the
\* value was missing, was not UTF-8, or (Integer kind) did not parse as i32.
Offending(i) ==
    \/ log[i].arg.kind = "Err"
    \/ log[i].opt = "" /\ log[i].arg.kind \in {"Short", "Long", "Value"}
    \/ /\ log[i].opt # ""
       /\ OptOf(Sch, log[i].opt).kind # "bool"
       /\ \/ log[i].src = "missing"
          \/ ~IsUnicode(ValueTaken(i))
          \/ OptOf(Sch, log[i].opt).kind = "int" /\ ~ParseI32(ValueTaken(i)).ok

\* Continuations put after the position of an error.
FollowTokens == {tLongVerbose, tShortX, tFive, tDashDash}
Tails ==
    SeqsUpTo(FollowTokens, 1) \cup {<<tShortX, tLongVerbose>>, <<tLongVerbose, tFive>>,
                                   <<tDashDash, tShortX>>}

\* C8: the turn that meets the first error is the last turn of the pass: no
\* token after the error's position is read, the result is that turn's
\* error, and it is the same whatever tokens follow that position (where the
\* error is not the end of the input itself, MissingValue).
C8_FirstErrorWins ==
    FromDone =>
        /\ \A i \in DOMAIN log :
               Offending(i) => /\ i = Len(log)
                               /\ Res.kind = "Err"
                               /\ parser.pos = log[i].to
        /\ Res.kind = "Err" =>
               /\ Offending(Len(log))
               /\ Res.err.kind # "MissingValue" =>
                      \A t \in Tails \cup {Drop(args, parser.pos)} :
                          ParseFromResult(Sch, SubSeq(args, 1, parser.pos) \o t) = Res

\* A parse that applied a flag, met an error, and returned it with two or
\* more tokens still unread.
C8_Witness ==
    /\ FromDone /\ Res.kind = "Err"
    /\ Len(log) >= 2
    /\ parser.pos + 2 <= Len(args)
    /\ config # Default(Sch)

\* C9: what a caller receives from parse_from or parse_env is either a record
\* or an error, never both and nothing while the pass runs: a record only
\* when the pass read every token without error (then it is the complete
\* working record), and on an error the error alone, with no field of the
\* working record in it.  The core has no step that ends the process: it is
\* either idle or inside parse_impl.
C9_AllOrNothing ==
    /\ pc \in {"idle", "parse_impl"}
    /\ \A e \in Entries :
           /\ ret[e].kind \in {"None", "Ok", "Err"}
           /\ ret[e].kind = "Ok" =>
                  DOMAIN ret[e] = {"kind", "config"} /\ DOMAIN ret[e].config = Names(Sch)
           /\ ret[e].kind = "Err" => DOMAIN ret[e] = {"kind", "err"}
    /\ pc = "parse_impl" => ret[entry].kind = "None"
    /\ CallDone =>
           /\ Res.kind \in {"Ok", "Err"}
           /\ Res.kind = "Ok" =>
                  /\ log[Len(log)].arg.kind = "End"
                  /\ parser.pos = Len(args)
                  /\ \A i \in DOMAIN log : ~Offending(i)
                  /\ Res.config = config
           /\ Res.kind = "Err" => Offending(Len(log))

\* A call that had changed its working record when it met an error: the
\* caller holds the error only.
C9_Witness ==
    /\ CallDone /\ Res.kind = "Err"
    /\ config # Default(Sch)
    /\ DOMAIN Res = {"kind", "err"}

\* C10: on the same argument sequence parse_env and parse_from return the
\* same result; both enter the loop with exactly the first element taken
\* off the sequence.
C10_EntryPointsAgree ==
    /\ (pc = "idle" /\ ret["parse_from"].kind # "None" /\ ret["parse_env"].kind # "None") =>
           ret["parse_from"] = ret["parse_env"]
    /\ (pc = "parse_impl" /\ log = <<>>) =>
           /\ parser.pos = (IF Len(args) >= 1 THEN 1 ELSE 0)
           /\ parser.state = StNone

\* Both entry points have returned a record that differs from the default.
C10_Witness ==
    /\ pc = "idle"
    /\ ret["parse_from"].kind = "Ok" /\ ret["parse_env"].kind = "Ok"
    /\ ret["parse_env"].config # Default(Sch)
    /\ Len(args) >= 3

\* C11: parse_from is a function of its input alone.  Every call starts its
\* loop from a fresh record equal to Config::default(); the result a call
\* returns is the one the input determines, whatever calls (succeeding or
\* failing, with whatever inputs) were made before it; and a call made with
\* the input of the first call returns the result the first call returned.
C11_SameInputSameResult ==
    /\ (pc = "parse_impl" /\ log = <<>>) => config = Default(Sch)
    /\ FromDone => Res = ParseFromResult(Sch, args)
    /\ (FromDone /\ seen.kind = "Seen" /\ seen.args = args) => Res = seen.result

\* parse_from has returned for the input of the first call, after a call
\* with another input that changed a field of its own working record.
C11_Witness ==
    /\ FromDone /\ seen.kind = "Seen" /\ seen.args = args /\ seen.other
    /\ Res = seen.result
    /\ Res.kind = "Ok" /\ Res.config = Default(Sch)


\* The token a dispatched turn took its option from.
FlagTokenOf(i) == args[LastFlagIdx(i)]
IsValueKind(n) == OptOf(Sch, n).kind \in {"str", "int"}

\* C12 as stated: no turn sets a field from text attached to the flag, and
\* every dispatch comes from a whole token that is a declared spelling (no
\* =-joined value, no -ovalue, no cluster of short flags).
C12_AsStated ==
    \A i \in DOMAIN log :
        (log[i].opt # "" /\ ~log[i].failed) =>
            /\ log[i].src # "attached"
            /\ FlagTokenOf(i) \in SpellingsOf(OptOf(Sch, log[i].opt))

\* The text attached to the option at position j of the short-option token tok.
ShortAttached(tok, j) == IF tok[j + 1] = Eq THEN Drop(tok, j + 1) ELSE Drop(tok, j)

\* C12, amended: the pass accepts attached values and clusters.  A long
\* option is dispatched from the token --name or --name=text, a short option
\* from any position of a token -abc; a value-kind option takes the text
\* attached to it (after --name=, or the rest of the short token, less a
\* leading =) as its value and then consumes no following token, and takes
\* the following token only when nothing is attached; the field is set from
\* that text.
C12_AttachedValuesAndClusters ==
    \A i \in DOMAIN log :
        log[i].opt # "" =>
            LET o == OptOf(Sch, log[i].opt)
                tok == FlagTokenOf(i)
                last == i = Len(log) /\ ~log[i].failed
            IN  /\ log[i].arg.kind = "Long" =>
                       /\ o.hasLong
                       /\ IF HasEq(tok)
                          THEN /\ SubSeq(tok, 1, FirstEq(tok) - 1) = LongSpelling(o)
                               /\ o.kind # "bool" =>
                                      log[i].src = "attached" /\ log[i].raw = Drop(tok, FirstEq(tok))
                          ELSE /\ tok = LongSpelling(o)
                               /\ o.kind # "bool" => log[i].src \in {"next", "missing"}
                /\ log[i].arg.kind = "Short" =>
                       /\ o.hasShort /\ Len(tok) >= 2 /\ tok[1] = Dash /\ tok[2] # Dash
                       /\ \E j \in 2..Len(tok) :
                              /\ tok[j] = o.short
                              /\ o.kind # "bool" =>
                                     IF j < Len(tok)
                                     THEN log[i].src = "attached" /\ log[i].raw = ShortAttached(tok, j)
                                     ELSE log[i].src \in {"next", "missing"}
                /\ log[i].src = "attached" => log[i].to = LastFlagIdx(i)
                /\ (last /\ log[i].src = "attached" /\ o.kind = "str") => config[o.name] = log[i].raw
                /\ (last /\ log[i].src = "attached" /\ o.kind = "int") =>
                       config[o.name] = ParseI32(log[i].raw).val

\* A successful parse that set a field from a value attached to its flag
\* and dispatched a Flag-kind option out of a cluster.
C12_Witness ==
    /\ FromDone /\ Res.kind = "Ok"
    /\ \E i \in DOMAIN log :
           /\ log[i].src = "attached"
           /\ Res.config[log[i].opt] # Default(Sch)[log[i].opt]
    /\ \E j \in DOMAIN log :
           /\ log[j].opt # "" /\ OptOf(Sch, log[j].opt).kind = "bool"
           /\ log[j].arg.kind = "Short" /\ Len(FlagTokenOf(j)) > 2
           /\ Res.config[log[j].opt] = TRUE

\* C13: the first element of the input sequence is dropped as the program
\* name and never affects the result.  No turn of the loop reads it, the
\* result is the one the same sequence gives with any other first element
\* (also one spelled like a flag, or --), and a sequence of length 0 or 1
\* yields the default record.
C13_FirstElementIgnored ==
    /\ \A i \in DOMAIN log : log[i].from >= (IF Len(args) = 0 THEN 0 ELSE 1)
    /\ FromDone =>
           /\ \A n \in ProgramNames(schema) :
                  Len(args) >= 1 => Res = ParseFromResult(Sch, <<n>> \o Tail(args))
           /\ Len(args) <= 1 => Res = Ok(Default(Sch))

\* parse_from succeeded on a sequence whose first element is the spelling of
\* a Flag-kind option whose field is still false, after reading later tokens.
C13_Witness ==
    /\ FromDone /\ Res.kind = "Ok" /\ Len(args) >= 2
    /\ \E j \in DOMAIN Sch :
           /\ Sch[j].kind = "bool"
           /\ args[1] \in SpellingsOf(Sch[j])
           /\ Res.config[Sch[j].name] = FALSE
    /\ Res.config # Default(Sch)

\* The number a decimal token denotes and whether it is an i32, found from
\* the digits alone: the magnitude without leading zeros is compared, by
\* length and then digit by digit, with the magnitude of the bound.
RECURSIVE StripZeros(_)
StripZeros(d) == IF d # <<>> /\ Head(d) = "0" THEN StripZeros(Tail(d)) ELSE d
IsNegative(tok) == tok # <<>> /\ tok[1] = Dash
Magnitude(tok) == StripZeros(IF tok # <<>> /\ tok[1] \in {"+", "-"} THEN Tail(tok) ELSE tok)
RECURSIVE DigitsLeq(_, _)
DigitsLeq(a, b) ==
    IF a = <<>> THEN TRUE
    ELSE IF DigitVal(Head(a)) # DigitVal(Head(b)) THEN DigitVal(Head(a)) < DigitVal(Head(b))
    ELSE DigitsLeq(Tail(a), Tail(b))
InI32(tok) ==
    LET m == Magnitude(tok)
        bound == IF IsNegative(tok) THEN tI32MaxPlus1 ELSE tI32Max
    IN  Len(m) < Len(bound) \/ (Len(m) = Len(bound) /\ DigitsLeq(m, bound))
RECURSIVE SignedSum(_, _, _)
SignedSum(d, sign, acc) ==
    IF d = <<>> THEN acc ELSE SignedSum(Tail(d), sign, acc * 10 + sign * DigitVal(Head(d)))
NumberOf(tok) == SignedSum(Magnitude(tok), IF IsNegative(tok) THEN -1 ELSE 1, 0)

\* C14: an Integer field is a signed 32-bit number and never wraps.  When an
\* Integer-kind option takes a decimal token as its value, a token denoting a
\* number of [-2147483648, 2147483647] (both bounds and negative numbers such
\* as -5 included) sets the field to exactly that number, and a token
\* denoting a number outside it ends the parse with the invalid-value error
\* carrying that token; every Integer field of a success record lies in the
\* range.
C14_IntegerIsI32 ==
    /\ log # <<>> =>
           LET i == Len(log)
               v == ValueTaken(i)
           IN  (/\ log[i].opt # ""
                /\ OptOf(Sch, log[i].opt).kind = "int"
                /\ log[i].src \in {"next", "attached"}
                /\ IsDecimal(v)) =>
                   IF InI32(v)
                   THEN ~log[i].failed /\ config[log[i].opt] = NumberOf(v)
                   ELSE /\ log[i].failed /\ pc = "idle"
                        /\ Res = Err(ErrParsingFailed(v))
    /\ (CallDone /\ Res.kind = "Ok") =>
           \A j \in DOMAIN Sch :
               Sch[j].kind = "int" =>
                   Res.config[Sch[j].name] >= I32Min /\ Res.config[Sch[j].name] <= I32Max

\* A successful parse that set the Integer field to the upper bound and then
\* to the lower bound of i32.
C14_Witness ==
    /\ FromDone /\ Res.kind = "Ok"
    /\ Res.config["max_retries"] = I32Min
    /\ \E i \in DOMAIN log : log[i].opt = "max_retries" /\ ValueTaken(i) = tI32Max

\* The last turn dispatched to a value-kind option that has no value
\* attached and is followed by a token.
ValueFlagFollowed ==
    /\ log # <<>>
    /\ log[Len(log)].opt # ""
    /\ IsValueKind(log[Len(log)].opt)
    /\ log[Len(log)].src # "attached"
    /\ LastFlagIdx(Len(log)) < Len(args)

\* The token after the value-kind flag is consumed as the value, is read by
\* no turn in flag position, and raises no unrecognized-argument error.
FollowingTokenIsTheValue ==
    LET i == Len(log)
    IN  /\ log[i].src = "next"
        /\ parser.pos = log[i].to
        /\ parser.state.tag \in {"None", "FinishedOpts"}
        /\ \A j \in DOMAIN log : log[i].to \notin FlagTokens(j)
        /\ log[i].failed => (pc = "idle" /\ Res.kind = "Err" /\ Res.err.kind \notin UnrecognizedKinds)

\* C15 as stated: the token following a value-kind flag is always consumed
\* as the value, never as a flag, and a Text field then holds that token
\* verbatim.
C15_AsStated ==
    ValueFlagFollowed =>
        /\ FollowingTokenIsTheValue
        /\ OptOf(Sch, log[Len(log)].opt).kind = "str" =>
               config[log[Len(log)].opt] = args[log[Len(log)].to]

\* C15, amended: the token following a value-kind flag is always consumed
\* as the value, never read as a flag, and raises no unrecognized-argument
\* error; a Text field then holds that token verbatim when the token is
\* valid UTF-8, and otherwise the parse ends there with NonUnicodeValue and
\* the field is not set.
C15_FollowingTokenIsValue ==
    ValueFlagFollowed =>
        /\ FollowingTokenIsTheValue
        /\ OptOf(Sch, log[Len(log)].opt).kind = "str" =>
               LET n == log[Len(log)].opt
                   tok == args[log[Len(log)].to]
               IN  IF IsUnicode(tok)
                   THEN ~log[Len(log)].failed /\ config[n] = tok
                   ELSE /\ log[Len(log)].failed /\ pc = "idle"
                        /\ Res = Err(ErrNonUnicodeValue(tok))
                        /\ config[n] # tok

\* -c -d: parse_from succeeded with config_path holding "-d" and debug still
\* false.
C15_Witness ==
    /\ FromDone /\ Res.kind = "Ok" /\ schema = "core_tests"
    /\ args = <<tProgram, tShortC, tShortD>>
    /\ Res.config["config_path"] = tShortD
    /\ Res.config["debug"] = FALSE

\* A token that is not spelled like an option.
IsBareValue(tok) == tok = <<>> \/ tok[1] # Dash \/ tok = <<Dash>>
IsFlagKind(n) == OptOf(Sch, n).kind = "bool"

\* C16: a turn dispatched to a Flag-kind option sets the field to true and
\* consumes nothing but the flag: the token after a Flag-kind flag is read
\* by the next turn in flag position, and when it is a bare value the parse
\* ends there with the unrecognized-argument error carrying it.  At every
\* point of a parse a Flag-kind field with default false is true exactly
\* when the option was dispatched earlier in that parse, so it never goes
\* back to false, and in a success record it is true exactly when the option
\* occurred in flag position.
C16_FlagSetsTrueConsumesNothing ==
    /\ \A i \in DOMAIN log :
           (log[i].opt # "" /\ IsFlagKind(log[i].opt)) =>
               /\ log[i].src = "none" /\ ~log[i].failed
               /\ log[i].to - log[i].from <= 1
               /\ i = Len(log) => (config[log[i].opt] = TRUE /\ parser.pos = log[i].to)
               /\ (i < Len(log) /\ FlagTokenOf(i) \in SpellingsOf(OptOf(Sch, log[i].opt))) =>
                      /\ log[i + 1].from = log[i].to
                      /\ log[i + 1].arg.kind # "End" => log[i].to + 1 \in FlagTokens(i + 1)
                      /\ (log[i].to < Len(args) /\ IsBareValue(args[log[i].to + 1])) =>
                             /\ log[i + 1].opt = "" /\ i + 1 = Len(log) /\ pc = "idle"
                             /\ Res = Err(ErrUnexpectedArgument(args[log[i].to + 1]))
    /\ entry # "none" =>
           \A j \in DOMAIN Sch :
               (Sch[j].kind = "bool" /\ Sch[j].default = FALSE) =>
                   /\ config[Sch[j].name] = (Sch[j].name \in Dispatched)
                   /\ (CallDone /\ Res.kind = "Ok") =>
                          Res.config[Sch[j].name] = (Sch[j].name \in Dispatched)

\* A successful parse in which a Flag-kind option occurred twice and its
\* field is true, while another Flag-kind option never occurred and its
\* field is false.
C16_Witness ==
    /\ FromDone /\ Res.kind = "Ok"
    /\ \E n, m \in Names(Sch) :
           /\ IsFlagKind(n) /\ IsFlagKind(m)
           /\ Cardinality(TurnsOf(n)) >= 2 /\ Res.config[n] = TRUE
           /\ m \notin Dispatched /\ Res.config[m] = FALSE

\* An upper bound on the turns of a pass over a: one per character of the
\* tokens after the program name (a cluster yields one turn per option), and
\* the turn that meets the end.
RECURSIVE TurnBound(_)
TurnBound(a) ==
    IF Len(a) <= 1 THEN 1
    ELSE TurnBound(SubSeq(a, 1, Len(a) - 1)) + (IF a[Len(a)] = <<>> THEN 1 ELSE Len(a[Len(a)]))

IsSuffix(x, tok) == Len(x) < Len(tok) /\ x = Drop(tok, Len(tok) - Len(x))

\* The turns so far are one left-to-right pass: they start after the
\* program name, each starts where the one before stopped and never moves
\* back, a turn takes at most two tokens (one read ahead), a value is the
\* token right after the flag or text of the flag token itself, and the
\* parser stands where the last turn stopped.
SinglePass ==
    /\ Len(log) <= TurnBound(args)
    /\ log # <<>> =>
           /\ log[1].from = (IF Len(args) = 0 THEN 0 ELSE 1)
           /\ pc = "parse_impl" => parser.pos = log[Len(log)].to
    /\ \A i \in DOMAIN log :
           /\ log[i].from <= log[i].to /\ log[i].to <= Len(args)
           /\ log[i].to - log[i].from <= 2
           /\ i < Len(log) => (log[i + 1].from = log[i].to /\ ~log[i].failed)
           /\ log[i].src = "next" =>
                  /\ log[i].raw = args[log[i].to] /\ log[i].to - log[i].from \in {1, 2}
                  /\ log[i].to - log[i].from = 1 => log[i].arg.kind = "Short"
           /\ log[i].src = "attached" =>
                  /\ log[i].to - log[i].from <= 1
                  /\ IsSuffix(log[i].raw, args[log[i].to])
           /\ log[i].arg.kind = "End" => (i = Len(log) /\ log[i].to = Len(args))

\* The call returns success exactly when it reached the end of the input
\* with no error on the way.
SuccessIffEndReached ==
    CallDone =>
        /\ Res.kind = "Ok" <=> (/\ log[Len(log)].arg.kind = "End"
                                /\ \A i \in DOMAIN log : ~Offending(i) /\ ~log[i].failed)
        /\ Res.kind = "Ok" => Res.config = config
        /\ Res.kind \in {"Ok", "Err"}

\* What enables LoopTurn in a running loop: the turn is defined, and either
\* returns a result or goes on with a parser that did not move back.
CanTakeTurn ==
    LET t == LoopBody(Sch, args, parser, config)
    IN  /\ t.returns \in BOOLEAN
        /\ t.returns => t.result.kind \in {"Ok", "Err"}
        /\ t.p.pos >= parser.pos

\* C17: the pass terminates on every finite sequence: a running loop can
\* always take its next turn, and it takes at most as many turns as the
\* tokens after the program name have characters, plus one.  It is a single
\* left-to-right pass: each token after the program name is consumed at most
\* once, in order, in flag position or as the value of the flag right before
\* it, with at most one token read ahead; the call returns success exactly
\* when the end of the input is reached with no error.
C17_SinglePassTerminates ==
    /\ SinglePass
    /\ SuccessIffEndReached
    /\ pc = "parse_impl" => CanTakeTurn

\* A successful pass that took a value from the following token and read
\* every token of a sequence of four.
C17_Witness ==
    /\ FromDone /\ Res.kind = "Ok" /\ Len(args) >= 4
    /\ parser.pos = Len(args)
    /\ \E i \in DOMAIN log : log[i].src = "next"
    /\ Len(log) >= 3

\* The turn that returned the error, the option it was dispatched to and
\* the spelling of an option inside the token it was read from.
ErrTurn == log[Len(log)]
NamesOption(spelling, tok) ==
    IF StartsWithDashDash(tok)
    THEN spelling = (IF HasEq(tok) THEN SubSeq(tok, 1, FirstEq(tok) - 1) ELSE tok)
    ELSE /\ Len(spelling) = 2 /\ spelling[1] = Dash
         /\ Len(tok) >= 2 /\ tok[1] = Dash
         /\ \E j \in 2..Len(tok) : tok[j] = spelling[2]

\* What the errors carry, apart from the invalid-value ones: the fallback
\* arm's error carries the unmatched option as spelled or the unmatched
\* value token, and MissingValue the spelling of the option that lacks its
\* value.
OtherErrorsCarryContext ==
    /\ Res.err.kind = "UnexpectedOption" =>
           /\ ErrTurn.opt = "" /\ ErrTurn.arg.kind \in {"Short", "Long"}
           /\ NamesOption(Res.err.option, args[ErrTurn.to])
    /\ Res.err.kind = "UnexpectedArgument" =>
           /\ ErrTurn.opt = "" /\ ErrTurn.arg.kind = "Value"
           /\ Res.err.value = args[ErrTurn.to]
    /\ Res.err.kind = "MissingValue" =>
           /\ ErrTurn.opt # "" /\ IsValueKind(ErrTurn.opt) /\ ErrTurn.src = "missing"
           /\ NamesOption(Res.err.option, args[ErrTurn.to])
           /\ Res.err.option \in SpellingsOf(OptOf(Sch, ErrTurn.opt))

\* C18 as stated: the errors are of distinct kinds and carry their context,
\* and the invalid-value error of an Integer value that does not parse
\* carries both the name of the option and the raw value token.
C18_AsStated ==
    (FromDone /\ Res.kind = "Err") =>
        /\ OtherErrorsCarryContext
        /\ Res.err.kind = "ParsingFailed" =>
               /\ ErrTurn.opt # ""
               /\ Res.err.value = ValueTaken(Len(log))
               /\ NamesOption(Res.err.option, FlagTokenOf(Len(log)))

\* C18, amended: the errors are of distinct kinds, one per cause, and carry
\* their context, except that the invalid-value errors (ParsingFailed for an
\* Integer value that does not parse, NonUnicodeValue for a value that is not
\* UTF-8) carry the raw value only, not the option; the error for text
\* attached to a Flag-kind option carries both the option and the text.
C18_ErrorsCarryContext ==
    (FromDone /\ Res.kind = "Err") =>
        /\ OtherErrorsCarryContext
        /\ Res.err.kind \in InvalidValueKinds =>
               /\ ErrTurn.opt # "" /\ IsValueKind(ErrTurn.opt)
               /\ Res.err.value = ValueTaken(Len(log))
               /\ Res.err.option = <<>>
               /\ Res.err.kind = "ParsingFailed" =>
                      OptOf(Sch, ErrTurn.opt).kind = "int" /\ ~ParseI32(Res.err.value).ok
               /\ Res.err.kind = "NonUnicodeValue" => ~IsUnicode(Res.err.value)
        /\ Res.err.kind = "UnexpectedValue" =>
               /\ ErrTurn.arg.kind = "Err"
               /\ NamesOption(Res.err.option, args[ErrTurn.to])
               /\ IsSuffix(Res.err.value, args[ErrTurn.to])
        /\ Res.err.kind \in UnrecognizedKinds \cup InvalidValueKinds
                                \cup {"MissingValue", "UnexpectedValue"}

\* parse_from returned the invalid-value error for -r abc or --retries abc:
\* it carries "abc" and no option.
C18_Witness ==
    /\ FromDone /\ Res.kind = "Err" /\ Res.err.kind = "ParsingFailed"
    /\ ErrTurn.opt = "max_retries" /\ ErrTurn.src = "next"
    /\ Res.err.value = tAbc /\ Res.err.option = <<>>

\* What main received from parse_env, and what main did so far.
Parsed == ret["parse_env"]
Did(x) == \E k \in DOMAIN main.out : main.out[k] = x
Printed == Did("help") \/ Did("version")
LoggingUp == Did("init DEBUG") \/ Did("init INFO")

\* C19: in peace-cli's main the order of outcomes is fixed.  Nothing is done
\* before parse_env has returned a record; on a parse error main ends with a
\* failure having done nothing, whatever flags preceded the offending token.
\* Otherwise, with help set main prints the help and exits with code 0 and
\* does nothing else, also when version is set; else with version set it
\* prints the version and exits with code 0 and does nothing else; else it
\* initialises logging, at DEBUG when verbose is set and at INFO when not,
\* and then invokes the interpreter.
C19_MainOutcomeOrder ==
    /\ main.out # <<>> => Parsed.kind = "Ok"
    /\ main.status = "exit0" => Printed
    /\ Did("run_python_qdrant") => (LoggingUp /\ main.out[1] \in {"init DEBUG", "init INFO"})
    /\ main.pc = "done" =>
           IF Parsed.kind = "Err" THEN main.out = <<>> /\ main.status = "failure"
           ELSE IF Parsed.config["help"] THEN main.out = <<"help">> /\ main.status = "exit0"
           ELSE IF Parsed.config["version"]
           THEN main.out = <<"version">> /\ main.status = "exit0"
           ELSE /\ main.out[1] = (IF Parsed.config["verbose"] THEN "init DEBUG" ELSE "init INFO")
                /\ main.out[2] = "app ready"
                /\ main.out[3] = "run_python_qdrant"
                /\ ~Printed
                /\ main.status \in {"ok", "failure"}

\* main has ended after arguments that set both help and version: it printed
\* the help only and exited with code 0.
C19_Witness ==
    /\ main.pc = "done" /\ Parsed.kind = "Ok"
    /\ Parsed.config["help"] /\ Parsed.config["version"]
    /\ main.out = <<"help">> /\ main.status = "exit0"

====
